---- MODULE Spec2Model ----
(***************************************************************************)
(* The chip8-emulator web component (src/js/components/upload-button.js),  *)
(* the Keyboard and Audio adapters of the same file, and the interpreter   *)
(* the component drives.  The interpreter (crate/pkg, Emulator) is a       *)
(* compiled import of the component; it is modelled from spec.md sections  *)
(* 3, 4 and 6 and every such definition is marked "spec" below.            *)
(*                                                                         *)
(* JavaScript handlers run to completion on one event loop.  loop() is     *)
(* split into its steps (one tick per step, the render, the scheduling of  *)
(* the next frame); while it is under way (pc # "idle") no other handler   *)
(* may start.                                                              *)
(***************************************************************************)
EXTENDS Integers, Sequences, FiniteSets, TLC

\* ------------------------------------------------------------------------
\* Program constants
\* ------------------------------------------------------------------------
SCALE == 10
EMPTY_COLOR == "#0A84A0"
FILL_COLOR == "#ffffff"
\* The canvas before anything is painted and after clearRect: transparent.
CLEAR == "transparent"
\* `parseInt(...) || 10`
DEFAULT_TICKS == 10

\* spec: 4096-byte address space, programs at 0x200, 16 registers
MEM_SIZE == 4096
PROGRAM_START == 512
NUM_REGS == 16
NUM_KEYS == 16

\* ------------------------------------------------------------------------
\* Bounds of the model
\* ------------------------------------------------------------------------
\* The display: const WIDTH = 64 and const HEIGHT = 32 in the source.  The
\* model's display is smaller; every definition takes its size from these
\* two, and a sprite row (8 pixels) and a font glyph (5 rows) fit on it.
WIDTH == 8
HEIGHT == 6
\* FileReaders whose read is pending at one time.
MaxReaders == 2
\* Animation-frame callbacks pending at one time (direct start() calls can
\* stack render loops).
MaxPending == 2
\* Memory outside a program is zero and the program counter runs through
\* it: a new frame starts at a zero opcode only while the program counter is
\* within this many bytes of PROGRAM_START.
MaxRun == 2
\* Oscillators the audio context creates.
MaxOsc == 3
\* Keyboard events are drawn from the physical keys mapped to the logical
\* keys 1..MaxKey and from the unmapped keys.
MaxKey == 2
\* The strings given to the ticks-per-frame attribute of a new component
\* have at most this many characters.
MaxAttrLen == 2
\* The framebuffers given to renderGfx alone have at most this many pixels
\* set, or at most this many pixels clear.
MaxLit == 1

Cells == 0 .. (WIDTH * HEIGHT - 1)

Max(a, b) == IF a > b THEN a ELSE b

\* ------------------------------------------------------------------------
\* The interpreter (spec)
\* ------------------------------------------------------------------------
\* spec 3, Memory: bytes 0x000-0x04F hold a fixed 80-byte font table.
FONT ==
  << 240, 144, 144, 144, 240,   32,  96,  32,  32, 112,
     240,  16, 240, 128, 240,  240,  16, 240,  16, 240,
     144, 144, 240,  16,  16,  240, 128, 240,  16, 240,
     240, 128, 240, 144, 240,  240,  16,  32,  64,  64,
     240, 144, 240, 144, 240,  240, 144, 240,  16, 240,
     240, 144, 240, 144, 144,  224, 144, 224, 144, 224,
     240, 128, 128, 128, 240,  224, 144, 144, 144, 224,
     240, 128, 240, 128, 240,  240, 128, 240, 128, 128 >>

\* spec 3, Memory: 4096 bytes, indices 0x000-0xFFF.  The state holds the
\* bytes that are not zero, by address; MemAt reads the byte at an address.
MemAt(mem, a) == IF a \in DOMAIN mem THEN mem[a] ELSE 0

\* A program image: len bytes, which are the bytes of head followed by
\* zeros.
RomLen(rom) == rom.len
RomByte(rom, j) == IF j <= Len(rom.head) THEN rom.head[j] ELSE 0

\* Memory with the font table alone (no byte of the table is zero).
FontMem == [a \in 0 .. (Len(FONT) - 1) |-> FONT[a + 1]]

\* spec 4.1, new(): zero all state, font table at 0x000, PC = 0x200.
EmulatorNew ==
  [ mem   |-> FontMem,
    V     |-> [r \in 0 .. (NUM_REGS - 1) |-> 0],
    I     |-> 0,
    pc    |-> PROGRAM_START,
    sp    |-> 0,
    stack |-> [s \in 0 .. (NUM_REGS - 1) |-> 0],
    delay |-> 0,
    sound |-> 0,
    keys  |-> [k \in 0 .. (NUM_KEYS - 1) |-> FALSE],
    gfx   |-> [c \in Cells |-> 0] ]

\* spec 4.1, reset(): re-zero registers, stack, timers, framebuffer, input
\* matrix; reload the font table; keep no program.
EmulatorReset(emu) == EmulatorNew

\* spec 4.1, load(rom): ProgramTooLarge when len(rom) + 0x200 > 4096.
ProgramTooLarge(rom) == RomLen(rom) + PROGRAM_START > MEM_SIZE

\* spec 4.1 and 7, load(rom): on failure no state is mutated; otherwise the
\* state is reset, rom is copied to 0x200 and PC = 0x200.
EmulatorLoad(emu, rom) ==
  IF ProgramTooLarge(rom)
  THEN emu
  ELSE LET used == {a \in PROGRAM_START .. (PROGRAM_START + Len(rom.head) - 1) :
                      RomByte(rom, a - PROGRAM_START + 1) # 0}
       IN  [EmulatorNew EXCEPT
              !.mem = [a \in DOMAIN FontMem \cup used |->
                         IF a \in used
                         THEN RomByte(rom, a - PROGRAM_START + 1)
                         ELSE FontMem[a]],
              !.pc = PROGRAM_START]

\* Bit j (0 = least significant) of byte b.
Bit(b, j) == (b \div (2 ^ j)) % 2

\* spec 4.2, DRW Vx, Vy, n: n bytes at I, each an 8-pixel row, XORed onto the
\* framebuffer at column Vx mod 64, row (Vy + offset) mod 32, wrapping.
SpriteBit(emu, x, y, n, cell) ==
  LET row == cell \div WIDTH
      col == cell % WIDTH
      dx  == (col - (emu.V[x] % WIDTH)) % WIDTH
      dy  == (row - (emu.V[y] % HEIGHT)) % HEIGHT
  IN  IF dx < 8 /\ dy < n /\ emu.I + dy < MEM_SIZE
      THEN Bit(MemAt(emu.mem, emu.I + dy), 7 - dx)
      ELSE 0

\* A DRW that sets the sprite's pixels instead of XORing them.
DrawOr(emu, x, y, n) ==
  LET hit == {c \in Cells : SpriteBit(emu, x, y, n, c) = 1}
      collision == \E c \in hit : emu.gfx[c] = 1
  IN  [emu EXCEPT
         !.gfx = [c \in Cells |-> IF c \in hit THEN 1 ELSE emu.gfx[c]],
         !.V = [emu.V EXCEPT ![NUM_REGS - 1] = IF collision THEN 1 ELSE 0]]

Draw(emu, x, y, n) ==
  LET hit == {c \in Cells : SpriteBit(emu, x, y, n, c) = 1}
      collision == \E c \in hit : emu.gfx[c] = 1
  IN  [emu EXCEPT
         !.gfx = [c \in Cells |-> IF c \in hit THEN 1 - emu.gfx[c] ELSE emu.gfx[c]],
         !.V = [emu.V EXCEPT ![NUM_REGS - 1] = IF collision THEN 1 ELSE 0]]

\* spec 4.1, tick(), step 1: the big-endian opcode at PC.
Fetch(emu) == MemAt(emu.mem, emu.pc) * 256 + MemAt(emu.mem, emu.pc + 1)

\* The opcodes that write a timer: LD DT, Vx (Fx15) and LD ST, Vx (Fx18).
IsTimerLoad(op) == op \div 4096 = 15 /\ (op % 256) \in {21, 24}

\* spec 4.2, LD Vx, K: the lowest-indexed pressed key (some key is pressed).
LowestKey(keys) ==
  CHOOSE k \in DOMAIN keys : keys[k] /\ \A j \in DOMAIN keys : keys[j] => k <= j

\* A LD Vx, K that stores a key and advances whether a key is pressed or
\* not.
WaitKeyNoWait(emu, x) ==
  [emu EXCEPT !.V[x] = IF \E k \in DOMAIN emu.keys : emu.keys[k]
                       THEN LowestKey(emu.keys)
                       ELSE 0,
              !.pc = emu.pc + 2]

\* spec 4.2, LD Vx, K (Fx0A): PC is not advanced until a key is pressed; then
\* Vx receives the lowest-indexed pressed key and PC advances.
WaitKey(emu, x) ==
  IF \E k \in DOMAIN emu.keys : emu.keys[k]
  THEN [emu EXCEPT !.V[x] = LowestKey(emu.keys), !.pc = emu.pc + 2]
  ELSE emu

\* spec 4.2, SKP Vx (Ex9E) and SKNP Vx (ExA1): whether the key Vx names is
\* pressed; a value of Vx above 0xF names no key.
KeyDown(emu, x) == emu.V[x] \in DOMAIN emu.keys /\ emu.keys[emu.V[x]]

\* spec 6, set_key(index, pressed)
SetKey(emu, k, down) == [emu EXCEPT !.keys[k] = down]

\* spec 4.1, tick(), steps 2 and 3: decode and execute, PC advanced by 2
\* before dispatch.  The opcodes the model's programs use are executed; any
\* other opcode only advances PC (spec 4.1: unknown opcodes are a no-op).
\* No opcode decrements a timer (spec 3, TimerBank).
Execute(emu, op) ==
  LET top == op \div 4096
      nnn == op % 4096
      x   == (op \div 256) % 16
      y   == (op \div 16) % 16
      n   == op % 16
      kk  == op % 256
      adv == [emu EXCEPT !.pc = emu.pc + 2]
  IN  CASE op = 224 -> [adv EXCEPT !.gfx = [c \in Cells |-> 0]]
        [] top = 1  -> [adv EXCEPT !.pc = nnn]
        [] top = 6  -> [adv EXCEPT !.V[x] = kk]
        [] top = 7  -> [adv EXCEPT !.V[x] = (emu.V[x] + kk) % 256]
        [] top = 10 -> [adv EXCEPT !.I = nnn]
        [] top = 13 -> Draw(adv, x, y, n)
        [] top = 14 /\ kk = 158 ->
             [adv EXCEPT !.pc = IF KeyDown(emu, x) THEN emu.pc + 4 ELSE emu.pc + 2]
        [] top = 14 /\ kk = 161 ->
             [adv EXCEPT !.pc = IF KeyDown(emu, x) THEN emu.pc + 2 ELSE emu.pc + 4]
        [] top = 15 /\ kk = 10 -> WaitKey(emu, x)
        [] top = 15 /\ kk = 21 -> [adv EXCEPT !.delay = emu.V[x]]
        [] top = 15 /\ kk = 24 -> [adv EXCEPT !.sound = emu.V[x]]
        [] OTHER -> adv

\* spec 4.1, tick(): exactly one fetch-decode-execute cycle.
EmulatorTick(emu) == Execute(emu, Fetch(emu))

\* spec 6, gfx() / framebuffer_view(): the 2048-byte grid itself.
EmulatorGfx(emu) == emu.gfx

\* ------------------------------------------------------------------------
\* Program images a user may select.  A file is named by its index.
\* ------------------------------------------------------------------------
\* LD V0,2; LD DT,V0; LD ST,V0; LD I,0x000; DRW V0,V0,5; JP 0x20A
ROM_DRAW ==
  [ len |-> 12,
    head |-> << 96, 2,  240, 21,  240, 24,  160, 0,  208, 5,  18, 10 >> ]
\* JP 0x200, then zeros up to the last byte of memory.
ROM_FULL == [ len |-> MEM_SIZE - PROGRAM_START, head |-> << 18, 0 >> ]
\* The same with one byte more than fits.
ROM_OVER == [ len |-> MEM_SIZE - PROGRAM_START + 1, head |-> << 18, 0 >> ]

\* 0x200 LD V3,K; SKP V3; JP 0x200; 0x206 SKNP V3; JP 0x200; 0x20A JP 0x200
ROM_KEY ==
  [ len |-> 12,
    head |-> << 243, 10,  227, 158,  18, 0,  227, 161,  18, 0,  18, 0 >> ]

Files == {1, 2, 3}
FileBytes(f) ==
  CASE f = 1 -> ROM_DRAW
    [] f = 2 -> ROM_FULL
    [] f = 3 -> ROM_OVER

\* ------------------------------------------------------------------------
\* Attributes of the element
\* ------------------------------------------------------------------------
\* An attribute is absent (getAttribute returns null) or a string, here a
\* sequence of characters.
Absent == [present |-> FALSE, value |-> << >>]
Str(s) == [present |-> TRUE, value |-> s]

\* Values of the ticks-per-frame attribute the model sets.
TpfValues == { Absent, Str(<<"2">>), Str(<<"-", "1">>) }

Digits == <<"0", "1", "2", "3", "4", "5", "6", "7", "8", "9">>
IsDigit(c) == \E d \in 1 .. Len(Digits) : Digits[d] = c
DigitValue(c) == (CHOOSE d \in 1 .. Len(Digits) : Digits[d] = c) - 1
IsSpace(c) == c \in {" ", "\t", "\n"}

\* String(null) is "null".
ToStr(attr) == IF attr.present THEN attr.value ELSE <<"n", "u", "l", "l">>

RECURSIVE SkipSpaces(_)
SkipSpaces(s) ==
  IF s # << >> /\ IsSpace(Head(s)) THEN SkipSpaces(Tail(s)) ELSE s

\* The value of the longest prefix of digits of s, and how many there are.
RECURSIVE DigitsPrefix(_, _, _)
DigitsPrefix(s, acc, count) ==
  IF s # << >> /\ IsDigit(Head(s))
  THEN DigitsPrefix(Tail(s), acc * 10 + DigitValue(Head(s)), count + 1)
  ELSE [val |-> acc, count |-> count]

\* parseInt(string, 10): leading white space, an optional sign, then the
\* longest prefix of decimal digits; NaN when there is no digit.
ParseInt(attr) ==
  LET s    == SkipSpaces(ToStr(attr))
      neg  == s # << >> /\ Head(s) = "-"
      rest == IF s # << >> /\ Head(s) \in {"-", "+"} THEN Tail(s) ELSE s
      d    == DigitsPrefix(rest, 0, 0)
  IN  IF d.count = 0
      THEN [nan |-> TRUE, val |-> 0]
      ELSE [nan |-> FALSE, val |-> IF neg THEN 0 - d.val ELSE d.val]

\* A getter without its `|| 10`: NaN makes the test of the for statement
\* false, as 0 does.
TicksPerFrameNoDefault(attr) ==
  LET p == ParseInt(attr)
  IN  IF p.nan THEN 0 ELSE p.val

\* get ticksPerFrame(): parseInt(getAttribute('ticks-per-frame'), 10) || 10;
\* NaN and 0 are falsy.
TicksPerFrame(attr) ==
  LET p == ParseInt(attr)
  IN  IF p.nan \/ p.val = 0 THEN DEFAULT_TICKS ELSE p.val

\* get started(): getAttribute('started') === 'true' || false
Started(attr) == attr = "true"

\* ------------------------------------------------------------------------
\* Rendering
\* ------------------------------------------------------------------------
GetIndex(row, col) == row * WIDTH + col

\* The 2d context: the colour each cell of the canvas shows, the current
\* fillStyle, and how often each cell was painted since the render began.
\* The cell (row, col) is the SCALE x SCALE square of pixels whose corner is
\* (col * (SCALE + 1) + 1, row * (SCALE + 1) + 1).
CtxNew ==
  [ colour    |-> [c \in Cells |-> CLEAR],
    fillStyle |-> "#000000",
    paints    |-> [c \in Cells |-> 0] ]

\* The rows or columns (below limit) whose squares the pixels
\* from .. from + size - 1 meet.
Meets(from, size, limit) ==
  { k \in (from \div (SCALE + 1)) .. ((from + size - 2) \div (SCALE + 1)) :
      k >= 0 /\ k < limit }

\* Whether the pixels from .. from + size - 1 cover the square k wholly.
Covers(from, size, k) ==
  from <= k * (SCALE + 1) + 1 /\ from + size >= k * (SCALE + 1) + 1 + SCALE

\* One cell painted: in the fillStyle if the rectangle covers it wholly.
PaintCell(ctx, cell, whole) ==
  [ctx EXCEPT
     !.colour[cell] = IF whole THEN ctx.fillStyle ELSE "mixed",
     !.paints[cell] = ctx.paints[cell] + 1]

RECURSIVE PaintCells(_, _, _, _, _, _)
PaintCells(ctx, hit, x, y, w, h) ==
  IF hit = {}
  THEN ctx
  ELSE LET cell == CHOOSE c \in hit : TRUE
           whole == Covers(x, w, cell % WIDTH) /\ Covers(y, h, cell \div WIDTH)
       IN  PaintCells(PaintCell(ctx, cell, whole), hit \ {cell}, x, y, w, h)

\* ctx.fillRect(x, y, w, h): every cell the rectangle meets is painted.
FillRect(ctx, x, y, w, h) ==
  PaintCells(ctx,
             { GetIndex(r, c) : r \in Meets(y, h, HEIGHT), c \in Meets(x, w, WIDTH) },
             x, y, w, h)

\* ctx.clearRect(0, 0, canvas.width, canvas.height)
ClearRect(ctx) == [ctx EXCEPT !.colour = CtxNew.colour]

\* The body of the two for statements of renderCellsByCond at (row, col).
RenderCell(ctx, cond, row, col) ==
  IF cond[row, col]
  THEN ctx
  ELSE FillRect(ctx, col * (SCALE + 1) + 1, row * (SCALE + 1) + 1, SCALE, SCALE)

\* The iterations lo .. hi of the two for statements, in their order:
\* iteration k is row k \div WIDTH, col k % WIDTH.  The range is halved, and
\* the first half is computed before the second starts (the test on
\* fillStyle, which no iteration sets, always holds): TLC would otherwise
\* nest the evaluation of the iterations WIDTH * HEIGHT deep.
RECURSIVE RenderRange(_, _, _, _)
RenderRange(ctx, cond, lo, hi) ==
  IF lo = hi
  THEN RenderCell(ctx, cond, lo \div WIDTH, lo % WIDTH)
  ELSE LET first == RenderRange(ctx, cond, lo, (lo + hi) \div 2)
       IN  IF first.fillStyle = ctx.fillStyle
           THEN RenderRange(first, cond, (lo + hi) \div 2 + 1, hi)
           ELSE first

\* renderCellsByCond(gfx, fillStyle, conditionCallback): the callback is
\* given as the function of (row, col) it computes.
RenderCellsByCond(ctx, gfx, fillStyle, cond) ==
  RenderRange([ctx EXCEPT !.fillStyle = fillStyle], cond, 0, WIDTH * HEIGHT - 1)

\* (row, col) => !gfx[getIndex(row, col)]
FilledCond(gfx) ==
  [row \in 0 .. (HEIGHT - 1), col \in 0 .. (WIDTH - 1) |->
     gfx[GetIndex(row, col)] = 0]

\* (row, col) => gfx[getIndex(row, col)]
EmptyCond(gfx) ==
  [row \in 0 .. (HEIGHT - 1), col \in 0 .. (WIDTH - 1) |->
     gfx[GetIndex(row, col)] # 0]

\* A renderFilledCells that passes the callback of renderEmptyCells.
RenderFilledCellsSameCond(ctx, gfx) ==
  RenderCellsByCond(ctx, gfx, FILL_COLOR, EmptyCond(gfx))

RenderFilledCells(ctx, gfx) ==
  RenderCellsByCond(ctx, gfx, FILL_COLOR, FilledCond(gfx))

RenderEmptyCells(ctx, gfx) ==
  RenderCellsByCond(ctx, gfx, EMPTY_COLOR, EmptyCond(gfx))

\* renderGfx(), given the view gfx() returned; beginPath() and stroke() draw
\* nothing (the path is empty).  The paint counts start at 0 with the render.
RenderGfx(ctx, gfx) ==
  RenderEmptyCells(
    RenderFilledCells([ctx EXCEPT !.paints = [c \in Cells |-> 0]], gfx), gfx)

\* ------------------------------------------------------------------------
\* State
\* ------------------------------------------------------------------------
VARIABLES
  startedAttr,    \* the 'started' attribute: "null", "true" or "false"
  tpfAttr,        \* the 'ticks-per-frame' attribute
  programLoaded,  \* this._programLoaded
  animationId,    \* this._animationId, 0 for null
  emulator,       \* this._emulator
  ctx,            \* this._ctx, the canvas
  rafPending,     \* ids of the animation-frame callbacks the browser holds
  readers,        \* FileReader -> the file it is reading, 0 when it reads none
  pc,             \* "idle", or the place loop() has reached
  i,              \* the counter of loop()'s for statement
  cont,           \* who called loop(): "start" or "raf"; "none" outside loop()
  frame,          \* what the invocation of loop() under way has done so far
  hasProgram,     \* the emulator's latest reset or load was a load that succeeded
  lastLoad,       \* how the latest call of load ended: "none", "ok" or "failed"
  selected,       \* the files of the file-selected events not yet followed
                  \* by the call of load with their bytes
  pressed,        \* Keyboard.pressed
  lastEvent,      \* key code -> its most recent event
  o,              \* Audio.o, 0 for null
  sounding,       \* the oscillators started and not stopped
  created,        \* how many oscillators were created
  lastCall        \* the most recent call on Audio

compVars == << startedAttr, tpfAttr, programLoaded, animationId, emulator, ctx,
               rafPending, readers, pc, i, cont, frame, hasProgram, lastLoad,
               selected >>
keyVars == << pressed, lastEvent >>
audioVars == << o, sounding, created, lastCall >>
vars == << compVars, keyVars, audioVars >>

ReaderIds == 1 .. MaxReaders
\* requestAnimationFrame returns an id no pending callback has; the model
\* reuses the ids of callbacks that have run or were cancelled, except the
\* one this._animationId still holds.
RafIds == 1 .. (MaxPending + 1)

\* Of one invocation of loop(): the ticksPerFrame it started with, its calls
\* of tick, gfx and renderGfx so far, the timers as it started, and whether
\* one of its ticks loaded a timer.
FrameNew ==
  [ tpf |-> 0, ticks |-> 0, gfxCalls |-> 0, renders |-> 0,
    delay0 |-> 0, sound0 |-> 0, timersSet |-> FALSE ]

\* ------------------------------------------------------------------------
\* Keyboard and Audio
\* ------------------------------------------------------------------------
KEYS_MAP ==
  (49 :> 1) @@ (50 :> 2) @@ (51 :> 3) @@ (81 :> 4) @@ (87 :> 5) @@
  (69 :> 6) @@ (65 :> 7) @@ (83 :> 8) @@ (68 :> 9) @@ (90 :> 10) @@
  (67 :> 11) @@ (52 :> 12) @@ (82 :> 13) @@ (70 :> 14) @@ (86 :> 15)

\* KeyboardEvent.keyCode
KeyCodes == 0 .. 255
\* Two keys KEYS_MAP does not hold: X and the space bar.
UnmappedCodes == {88, 32}
\* The keys whose events the model delivers.
EventCodes ==
  {c \in DOMAIN KEYS_MAP : KEYS_MAP[c] <= MaxKey} \cup UnmappedCodes

\* The property of this.pressed that pressed[KEYS_MAP[e.keyCode]] names:
\* KEYS_MAP[e.keyCode] is undefined for a key the map does not hold, and
\* pressed[undefined] is the property "undefined".
KeyProp(code) ==
  IF code \in DOMAIN KEYS_MAP THEN ToString(KEYS_MAP[code]) ELSE "undefined"

PropNames == {ToString(k) : k \in 0 .. (NUM_KEYS - 1)} \cup {"undefined"}

\* handle_keydown(e), handle_keyup(e)
HandleKeydown(p, code) == [p EXCEPT ![KeyProp(code)] = "true"]
\* A handle_keyup that leaves pressed as it is.
HandleKeyupIgnored(p, code) == p

HandleKeyup(p, code) == [p EXCEPT ![KeyProp(code)] = "false"]

\* is_key_pressed(key): Boolean(this.pressed[key])
IsKeyPressed(p, key) == p[ToString(key)] = "true"

\* is_active(): Boolean(this.o)
IsActive(osc) == osc # 0

\* ------------------------------------------------------------------------
\* Initial state: the element, the Keyboard and the Audio just constructed
\* ------------------------------------------------------------------------
Init ==
  /\ startedAttr = "null"
  /\ tpfAttr = Absent
  /\ programLoaded = FALSE
  /\ animationId = 0
  /\ emulator = EmulatorNew
  /\ ctx = CtxNew
  /\ rafPending = {}
  /\ readers = [r \in ReaderIds |-> 0]
  /\ pc = "idle"
  /\ i = 0
  /\ cont = "none"
  /\ frame = FrameNew
  /\ hasProgram = FALSE
  /\ lastLoad = "none"
  /\ selected = {}
  /\ pressed = [n \in PropNames |-> "undefined"]
  /\ lastEvent = [c \in EventCodes |-> "none"]
  /\ o = 0
  /\ sounding = {}
  /\ created = 0
  /\ lastCall = "none"

\* ------------------------------------------------------------------------
\* loop()
\* ------------------------------------------------------------------------
\* A bound of the model, see MaxRun.
CanRun == Fetch(emulator) # 0 \/ emulator.pc <= PROGRAM_START + MaxRun

\* The call of loop(): its for statement starts at i = 0.
EnterLoop(caller) ==
  /\ pc' = "tick"
  /\ i' = 0
  /\ cont' = caller
  /\ frame' = [FrameNew EXCEPT !.tpf = TicksPerFrame(tpfAttr),
                               !.delay0 = emulator.delay,
                               !.sound0 = emulator.sound]

\* A loop() whose for statement runs while i <= this.ticksPerFrame.
LoopTickOnceMore ==
  /\ pc = "tick"
  /\ i <= TicksPerFrame(tpfAttr)
  /\ emulator' = EmulatorTick(emulator)
  /\ i' = i + 1
  /\ frame' = [frame EXCEPT !.ticks = @ + 1,
                            !.timersSet = @ \/ IsTimerLoad(Fetch(emulator))]
  /\ UNCHANGED << startedAttr, tpfAttr, programLoaded, animationId, ctx,
                  rafPending, readers, pc, cont, hasProgram, lastLoad, selected >>
  /\ UNCHANGED << keyVars, audioVars >>

\* for (let i = 0; i < this.ticksPerFrame; i++) this._emulator.tick()
LoopTick ==
  /\ pc = "tick"
  /\ i < TicksPerFrame(tpfAttr)
  /\ emulator' = EmulatorTick(emulator)
  /\ i' = i + 1
  /\ frame' = [frame EXCEPT !.ticks = @ + 1,
                            !.timersSet = @ \/ IsTimerLoad(Fetch(emulator))]
  /\ UNCHANGED << startedAttr, tpfAttr, programLoaded, animationId, ctx,
                  rafPending, readers, pc, cont, hasProgram, lastLoad, selected >>
  /\ UNCHANGED << keyVars, audioVars >>

\* A renderGfx that writes through the view gfx() returned: it clears the
\* pixels it has drawn.
LoopRenderClearsView ==
  /\ pc = "tick"
  /\ ~(i < TicksPerFrame(tpfAttr))
  /\ ctx' = RenderGfx(ctx, EmulatorGfx(emulator))
  /\ emulator' = [emulator EXCEPT !.gfx = [c \in Cells |-> 0]]
  /\ frame' = [frame EXCEPT !.gfxCalls = @ + 1, !.renders = @ + 1]
  /\ pc' = "raf"
  /\ UNCHANGED << startedAttr, tpfAttr, programLoaded, animationId,
                  rafPending, readers, i, cont, hasProgram, lastLoad, selected >>
  /\ UNCHANGED << keyVars, audioVars >>

\* The for statement ends; this.renderGfx()
LoopRender ==
  /\ pc = "tick"
  /\ ~(i < TicksPerFrame(tpfAttr))
  /\ ctx' = RenderGfx(ctx, EmulatorGfx(emulator))
  /\ frame' = [frame EXCEPT !.gfxCalls = @ + 1, !.renders = @ + 1]
  /\ pc' = "raf"
  /\ UNCHANGED << startedAttr, tpfAttr, programLoaded, animationId, emulator,
                  rafPending, readers, i, cont, hasProgram, lastLoad, selected >>
  /\ UNCHANGED << keyVars, audioVars >>

\* The id requestAnimationFrame returns.
FreshRafId == CHOOSE id \in RafIds :
  /\ id \notin rafPending \cup {animationId}
  /\ \A other \in RafIds : other < id => other \in rafPending \cup {animationId}

\* this._animationId = requestAnimationFrame(this.loop); loop() returns, and
\* start(), when it was the caller, ends with this.started = true.
LoopSchedule ==
  /\ pc = "raf"
  /\ animationId' = FreshRafId
  /\ rafPending' = rafPending \cup {FreshRafId}
  /\ startedAttr' = IF cont = "start" THEN "true" ELSE startedAttr
  /\ pc' = "idle"
  /\ i' = 0
  /\ cont' = "none"
  /\ frame' = FrameNew
  /\ UNCHANGED << tpfAttr, programLoaded, emulator, ctx, readers, hasProgram,
                  lastLoad, selected >>
  /\ UNCHANGED << keyVars, audioVars >>

\* The browser runs a pending animation-frame callback: loop().
Frame(id) ==
  /\ pc = "idle"
  /\ id \in rafPending
  /\ CanRun
  /\ rafPending' = rafPending \ {id}
  /\ EnterLoop("raf")
  /\ UNCHANGED << startedAttr, tpfAttr, programLoaded, animationId, emulator,
                  ctx, readers, hasProgram, lastLoad, selected >>
  /\ UNCHANGED << keyVars, audioVars >>

\* ------------------------------------------------------------------------
\* start(), pause(), toggle()
\* ------------------------------------------------------------------------
\* if (!this.started || this._programLoaded) { this.loop(); this.started = true }
StartCond == ~Started(startedAttr) \/ programLoaded

StartBody ==
  IF StartCond
  THEN /\ CanRun
       /\ Cardinality(rafPending) < MaxPending
       /\ EnterLoop("start")
       /\ UNCHANGED << startedAttr, tpfAttr, programLoaded, animationId,
                       emulator, ctx, rafPending, readers, hasProgram, lastLoad,
                       selected >>
  ELSE UNCHANGED compVars

\* A pause() without its cancelAnimationFrame.
PauseEffectNoCancel ==
  IF Started(startedAttr)
  THEN /\ rafPending' = rafPending
       /\ animationId' = 0
       /\ startedAttr' = "false"
  ELSE UNCHANGED << rafPending, animationId, startedAttr >>

\* if (this.started) { cancelAnimationFrame(this._animationId);
\*                     this._animationId = null; this.started = false }
PauseEffect ==
  IF Started(startedAttr)
  THEN /\ rafPending' = rafPending \ {animationId}
       /\ animationId' = 0
       /\ startedAttr' = "false"
  ELSE UNCHANGED << rafPending, animationId, startedAttr >>

PauseBody ==
  /\ PauseEffect
  /\ UNCHANGED << tpfAttr, programLoaded, emulator, ctx, readers, pc, i, cont,
                  frame, hasProgram, lastLoad, selected >>

Start ==
  /\ pc = "idle"
  /\ StartBody
  /\ UNCHANGED << keyVars, audioVars >>

Pause ==
  /\ pc = "idle"
  /\ PauseBody
  /\ UNCHANGED << keyVars, audioVars >>

\* A click on the start button: this.started ? this.pause() : this.start()
Toggle ==
  /\ pc = "idle"
  /\ IF Started(startedAttr) THEN PauseBody ELSE StartBody
  /\ UNCHANGED << keyVars, audioVars >>

\* The 'ticks-per-frame' attribute is set from outside.
SetTicksPerFrame(v) ==
  /\ pc = "idle"
  /\ v # tpfAttr
  /\ tpfAttr' = v
  /\ UNCHANGED << startedAttr, programLoaded, animationId, emulator, ctx,
                  rafPending, readers, pc, i, cont, frame, hasProgram, lastLoad,
                  selected >>
  /\ UNCHANGED << keyVars, audioVars >>

\* ------------------------------------------------------------------------
\* uploadProgram(evt) and reader.onload
\* ------------------------------------------------------------------------
FreeReaders == {r \in ReaderIds : readers[r] = 0}

\* An uploadProgram that resets and pauses but starts no read of the file.
UploadProgramNoRead(f) ==
  /\ pc = "idle"
  /\ FreeReaders # {}
  /\ emulator' = EmulatorReset(emulator)
  /\ hasProgram' = FALSE
  /\ ctx' = ClearRect(ctx)
  /\ PauseEffect
  /\ selected' = selected \cup {f}
  /\ UNCHANGED << tpfAttr, programLoaded, pc, i, cont, frame, lastLoad, readers >>
  /\ UNCHANGED << keyVars, audioVars >>

\* The 'file-selected' event handleFileSelected dispatches, with the file f
\* as its detail: reset, clearRect, pause, then a new FileReader reads f.
UploadProgram(f) ==
  /\ pc = "idle"
  /\ FreeReaders # {}
  /\ emulator' = EmulatorReset(emulator)
  /\ hasProgram' = FALSE
  /\ ctx' = ClearRect(ctx)
  /\ PauseEffect
  /\ readers' = [readers EXCEPT
                   ![CHOOSE r \in FreeReaders : \A q \in FreeReaders : r <= q] = f]
  /\ selected' = selected \cup {f}
  /\ UNCHANGED << tpfAttr, programLoaded, pc, i, cont, frame, lastLoad >>
  /\ UNCHANGED << keyVars, audioVars >>

\* spec 6 and 7: load returns Result<(), ProgramTooLarge>, surfaced to the
\* caller; the binding surfaces it to JavaScript as an exception.
LoadThrows(rom) == ProgramTooLarge(rom)

\* An onload the browser would run while loop() is under way.
ReaderOnloadAnyTime(r) ==
  /\ readers[r] # 0
  /\ LET rom == FileBytes(readers[r])
     IN  /\ emulator' = EmulatorLoad(emulator, rom)
         /\ programLoaded' = IF LoadThrows(rom) THEN programLoaded ELSE TRUE
         /\ hasProgram' = IF LoadThrows(rom) THEN hasProgram ELSE TRUE
         /\ lastLoad' = IF LoadThrows(rom) THEN "failed" ELSE "ok"
  /\ selected' = IF \E q \in ReaderIds \ {r} : readers[q] = readers[r]
                 THEN selected
                 ELSE selected \ {readers[r]}
  /\ readers' = [readers EXCEPT ![r] = 0]
  /\ UNCHANGED << startedAttr, tpfAttr, animationId, ctx, rafPending, pc, i,
                  cont, frame >>
  /\ UNCHANGED << keyVars, audioVars >>

\* An onload that sets _programLoaded whether load throws or not.
ReaderOnloadSetsFlag(r) ==
  /\ pc = "idle"
  /\ readers[r] # 0
  /\ LET rom == FileBytes(readers[r])
     IN  /\ emulator' = EmulatorLoad(emulator, rom)
         /\ programLoaded' = TRUE
         /\ hasProgram' = IF LoadThrows(rom) THEN hasProgram ELSE TRUE
         /\ lastLoad' = IF LoadThrows(rom) THEN "failed" ELSE "ok"
  /\ selected' = IF \E q \in ReaderIds \ {r} : readers[q] = readers[r]
                 THEN selected
                 ELSE selected \ {readers[r]}
  /\ readers' = [readers EXCEPT ![r] = 0]
  /\ UNCHANGED << startedAttr, tpfAttr, animationId, ctx, rafPending, pc, i,
                  cont, frame >>
  /\ UNCHANGED << keyVars, audioVars >>

\* reader.onload: self._emulator.load(program); self._programLoaded = true.
\* When load throws, the handler ends there.
ReaderOnload(r) ==
  /\ pc = "idle"
  /\ readers[r] # 0
  /\ LET rom == FileBytes(readers[r])
     IN  /\ emulator' = EmulatorLoad(emulator, rom)
         /\ programLoaded' = IF LoadThrows(rom) THEN programLoaded ELSE TRUE
         /\ hasProgram' = IF LoadThrows(rom) THEN hasProgram ELSE TRUE
         /\ lastLoad' = IF LoadThrows(rom) THEN "failed" ELSE "ok"
  /\ selected' = IF \E q \in ReaderIds \ {r} : readers[q] = readers[r]
                 THEN selected
                 ELSE selected \ {readers[r]}
  /\ readers' = [readers EXCEPT ![r] = 0]
  /\ UNCHANGED << startedAttr, tpfAttr, animationId, ctx, rafPending, pc, i,
                  cont, frame >>
  /\ UNCHANGED << keyVars, audioVars >>

\* ------------------------------------------------------------------------
\* Keyboard events and Audio calls
\* ------------------------------------------------------------------------
Keydown(code) ==
  /\ pressed' = HandleKeydown(pressed, code)
  /\ lastEvent' = [lastEvent EXCEPT ![code] = "down"]
  /\ UNCHANGED << compVars, audioVars >>

Keyup(code) ==
  /\ pressed' = HandleKeyup(pressed, code)
  /\ lastEvent' = [lastEvent EXCEPT ![code] = "up"]
  /\ UNCHANGED << compVars, audioVars >>

\* start(): if (!this.is_active()) { this.o = createOscillator(); ...;
\*                                   this.o.start() }
AudioStart ==
  /\ IF ~IsActive(o)
     THEN /\ created < MaxOsc
          /\ created' = created + 1
          /\ o' = created + 1
          /\ sounding' = sounding \cup {created + 1}
     ELSE UNCHANGED << o, sounding, created >>
  /\ lastCall' = "start"
  /\ UNCHANGED << compVars, keyVars >>

\* A stop() that stops the oscillator and keeps it in this.o.
AudioStopKeepsO ==
  /\ IF IsActive(o)
     THEN /\ sounding' = sounding \ {o}
          /\ o' = o
     ELSE UNCHANGED << o, sounding >>
  /\ created' = created
  /\ lastCall' = "stop"
  /\ UNCHANGED << compVars, keyVars >>

\* stop(): if (this.is_active()) { this.o.stop(); this.o = null }
AudioStop ==
  /\ IF IsActive(o)
     THEN /\ sounding' = sounding \ {o}
          /\ o' = 0
     ELSE UNCHANGED << o, sounding >>
  /\ created' = created
  /\ lastCall' = "stop"
  /\ UNCHANGED << compVars, keyVars >>

\* ------------------------------------------------------------------------
\* Specifications
\* ------------------------------------------------------------------------
\* The component and the interpreter it drives.
Next ==
  \/ Start
  \/ Pause
  \/ Toggle
  \/ \E v \in TpfValues : SetTicksPerFrame(v)
  \/ \E f \in Files : UploadProgram(f)
  \/ \E r \in ReaderIds : ReaderOnload(r)
  \/ \E id \in RafIds : Frame(id)
  \/ LoopTick
  \/ LoopRender
  \/ LoopSchedule

Spec == Init /\ [][Next]_vars

\* loop() under way goes on to its next statement: what LoopTick, LoopRender
\* and LoopSchedule do to pc and i.
LoopAdvance ==
  /\ pc # "idle"
  /\ pc' = IF pc = "raf" THEN "idle"
           ELSE IF i < TicksPerFrame(tpfAttr) THEN "tick" ELSE "raf"
  /\ i' = IF pc = "raf" THEN 0
          ELSE IF i < TicksPerFrame(tpfAttr) THEN i + 1 ELSE i

\* The same, with the scheduling of the browser: the handler under way runs
\* to its end, and a FileReader that finished reading has its onload run at
\* one of the moments the event loop is free.
FairSpec ==
  /\ Spec
  /\ WF_<<pc, i>>(LoopAdvance)
  /\ \A r \in ReaderIds : SF_vars(ReaderOnload(r))

\* The component driven through its user interface alone: connectedCallback
\* binds the click of the start button to toggle and the file-selected
\* event to uploadProgram; start() and pause() are not called from outside.
NextUI ==
  \/ Toggle
  \/ \E v \in TpfValues : SetTicksPerFrame(v)
  \/ \E f \in Files : UploadProgram(f)
  \/ \E r \in ReaderIds : ReaderOnload(r)
  \/ \E id \in RafIds : Frame(id)
  \/ LoopTick
  \/ LoopRender
  \/ LoopSchedule

SpecUI == Init /\ [][NextUI]_vars

\* Two files selected one after the other on a new component, both reads
\* pending: uploadProgram gave the first file to reader 1 and the second to
\* reader 2.  Both files fit in memory.  No further file is selected.
InitTwoReads ==
  /\ startedAttr = "null"
  /\ tpfAttr = Absent
  /\ programLoaded = FALSE
  /\ animationId = 0
  /\ emulator = EmulatorNew
  /\ ctx = CtxNew
  /\ rafPending = {}
  /\ \E first, second \in {f \in Files : ~ProgramTooLarge(FileBytes(f))} :
       /\ readers = [r \in ReaderIds |->
                       IF r = 1 THEN first ELSE IF r = 2 THEN second ELSE 0]
       /\ selected = {first, second}
  /\ pc = "idle"
  /\ i = 0
  /\ cont = "none"
  /\ frame = FrameNew
  /\ hasProgram = FALSE
  /\ lastLoad = "none"
  /\ pressed = [n \in PropNames |-> "undefined"]
  /\ lastEvent = [c \in EventCodes |-> "none"]
  /\ o = 0
  /\ sounding = {}
  /\ created = 0
  /\ lastCall = "none"

NextTwoReads ==
  \/ \E r \in ReaderIds : ReaderOnload(r)
  \/ Toggle
  \/ \E id \in RafIds : Frame(id)
  \/ LoopTick
  \/ LoopRender
  \/ LoopSchedule

SpecTwoReads == InitTwoReads /\ [][NextTwoReads]_vars

\* A new component whose page gave it a ticks-per-frame attribute, or none;
\* a click starts its loop.
AttrChars == {"0", "1", "2", "-", " ", "x"}
AttrInputs ==
  {Absent} \cup
    {Str(s) : s \in UNION {[1 .. n -> AttrChars] : n \in 0 .. MaxAttrLen}}

InitTpf ==
  /\ startedAttr = "null"
  /\ tpfAttr \in AttrInputs
  /\ programLoaded = FALSE
  /\ animationId = 0
  /\ emulator = EmulatorNew
  /\ ctx = CtxNew
  /\ rafPending = {}
  /\ readers = [r \in ReaderIds |-> 0]
  /\ pc = "idle"
  /\ i = 0
  /\ cont = "none"
  /\ frame = FrameNew
  /\ hasProgram = FALSE
  /\ lastLoad = "none"
  /\ selected = {}
  /\ pressed = [n \in PropNames |-> "undefined"]
  /\ lastEvent = [c \in EventCodes |-> "none"]
  /\ o = 0
  /\ sounding = {}
  /\ created = 0
  /\ lastCall = "none"

NextTpf ==
  \/ Toggle
  \/ \E id \in RafIds : Frame(id)
  \/ LoopTick
  \/ LoopRender
  \/ LoopSchedule

SpecTpf == InitTpf /\ [][NextTpf]_vars

\* The number a string of decimal digits writes.
RECURSIVE Numeral(_)
Numeral(s) ==
  IF s = << >>
  THEN 0
  ELSE 10 * Numeral(SubSeq(s, 1, Len(s) - 1)) +
       (CASE s[Len(s)] = "0" -> 0 [] s[Len(s)] = "1" -> 1 [] s[Len(s)] = "2" -> 2
          [] s[Len(s)] = "3" -> 3 [] s[Len(s)] = "4" -> 4 [] s[Len(s)] = "5" -> 5
          [] s[Len(s)] = "6" -> 6 [] s[Len(s)] = "7" -> 7 [] s[Len(s)] = "8" -> 8
          [] s[Len(s)] = "9" -> 9)

AllDigits(s) ==
  \A k \in 1 .. Len(s) :
    s[k] \in {"0", "1", "2", "3", "4", "5", "6", "7", "8", "9"}

\* The Keyboard and the Audio objects, which the component does not touch.
NextAdapters ==
  \/ \E code \in EventCodes : Keydown(code)
  \/ \E code \in EventCodes : Keyup(code)
  \/ AudioStart
  \/ AudioStop

SpecAdapters == Init /\ [][NextAdapters]_vars

\* renderGfx alone.  The sets of at most k cells:
RECURSIVE CellSets(_)
CellSets(k) ==
  IF k = 0
  THEN {{}}
  ELSE LET smaller == CellSets(k - 1)
       IN  smaller \cup {S \cup {c} : S \in smaller, c \in Cells}

\* The framebuffers: a byte of the view is 0, or 1, or any other byte when
\* the view is read as a Uint8Array.
RenderInputs ==
  { [c \in Cells |-> IF (c \in S) = lit THEN v ELSE 0] :
      S \in CellSets(MaxLit), lit \in BOOLEAN, v \in {1, 255} }

\* loop() of a started component has made its ticks, which left the
\* framebuffer g, and comes to this.renderGfx().
InitRender ==
  /\ startedAttr = "true"
  /\ tpfAttr = Absent
  /\ programLoaded = TRUE
  /\ animationId = 1
  /\ \E g \in RenderInputs : emulator = [EmulatorNew EXCEPT !.gfx = g]
  /\ ctx = CtxNew
  /\ rafPending = {}
  /\ readers = [r \in ReaderIds |-> 0]
  /\ pc = "tick"
  /\ i = TicksPerFrame(Absent)
  /\ cont = "raf"
  /\ frame = [FrameNew EXCEPT !.tpf = TicksPerFrame(Absent),
                              !.ticks = TicksPerFrame(Absent)]
  /\ hasProgram = TRUE
  /\ lastLoad = "ok"
  /\ selected = {}
  /\ pressed = [n \in PropNames |-> "undefined"]
  /\ lastEvent = [c \in EventCodes |-> "none"]
  /\ o = 0
  /\ sounding = {}
  /\ created = 0
  /\ lastCall = "none"

NextRender ==
  \/ LoopRender
  \/ LoopSchedule

SpecRender == InitRender /\ [][NextRender]_vars

\* The interpreter and its input matrix alone: ROM_KEY is loaded, the key
\* adapter calls set_key between ticks, and the driver calls tick.
InitKeys ==
  /\ startedAttr = "null"
  /\ tpfAttr = Absent
  /\ programLoaded = TRUE
  /\ animationId = 0
  /\ emulator = EmulatorLoad(EmulatorNew, ROM_KEY)
  /\ ctx = CtxNew
  /\ rafPending = {}
  /\ readers = [r \in ReaderIds |-> 0]
  /\ pc = "idle"
  /\ i = 0
  /\ cont = "none"
  /\ frame = FrameNew
  /\ hasProgram = TRUE
  /\ lastLoad = "ok"
  /\ selected = {}
  /\ pressed = [n \in PropNames |-> "undefined"]
  /\ lastEvent = [c \in EventCodes |-> "none"]
  /\ o = 0
  /\ sounding = {}
  /\ created = 0
  /\ lastCall = "none"

SetKeyStep(k, down) ==
  /\ emulator' = SetKey(emulator, k, down)
  /\ UNCHANGED << startedAttr, tpfAttr, programLoaded, animationId, ctx,
                  rafPending, readers, pc, i, cont, frame, hasProgram, lastLoad,
                  selected >>
  /\ UNCHANGED << keyVars, audioVars >>

TickStep ==
  /\ emulator' = EmulatorTick(emulator)
  /\ UNCHANGED << startedAttr, tpfAttr, programLoaded, animationId, ctx,
                  rafPending, readers, pc, i, cont, frame, hasProgram, lastLoad,
                  selected >>
  /\ UNCHANGED << keyVars, audioVars >>

NextKeys ==
  \/ \E k \in 0 .. MaxKey, down \in BOOLEAN : SetKeyStep(k, down)
  \/ TickStep

SpecKeys == InitKeys /\ [][NextKeys]_vars

\* DRW alone.  The program DRW V0, V1, n; DRW V0, V1, n; JP 0x204 is in
\* memory and about to run; the frame before left the framebuffer g and
\* rendered it, so the canvas shows g.  The sprite is read at I: a font
\* glyph, or memory no program has written.
DrawRows == {0, 5}
DrawSprites == {0, 768}
DrawColumns == {0, WIDTH - 2}
DrawFramebuffers ==
  { [c \in Cells |-> IF (c \in S) = lit THEN 1 ELSE 0] :
      S \in CellSets(MaxLit), lit \in BOOLEAN }

DrawProgram(n) ==
  [ len |-> 6, head |-> << 208, 16 + n,  208, 16 + n,  18, 4 >> ]

InitDraw ==
  /\ startedAttr = "true"
  /\ tpfAttr = Absent
  /\ programLoaded = TRUE
  /\ animationId = 1
  /\ \E g \in DrawFramebuffers, n \in DrawRows, a \in DrawSprites,
        col \in DrawColumns :
       /\ emulator =
            [EmulatorLoad(EmulatorNew, DrawProgram(n)) EXCEPT
               !.gfx = g, !.I = a, !.V[0] = col, !.V[1] = HEIGHT - 2]
       /\ ctx = RenderGfx(CtxNew, g)
  /\ rafPending = {1}
  /\ readers = [r \in ReaderIds |-> 0]
  /\ pc = "idle"
  /\ i = 0
  /\ cont = "none"
  /\ frame = FrameNew
  /\ hasProgram = TRUE
  /\ lastLoad = "ok"
  /\ selected = {}
  /\ pressed = [n \in PropNames |-> "undefined"]
  /\ lastEvent = [c \in EventCodes |-> "none"]
  /\ o = 0
  /\ sounding = {}
  /\ created = 0
  /\ lastCall = "none"

NextDraw == TickStep

SpecDraw == InitDraw /\ [][NextDraw]_vars

\* ------------------------------------------------------------------------
\* Properties
\* ------------------------------------------------------------------------
\* C1: tick is executed only while the emulator holds a loaded program: an
\* invocation of loop() that has called tick runs on an emulator whose latest
\* reset or load was a load that succeeded.
C1_TickOnlyWithProgram ==
  (pc # "idle" /\ frame.ticks > 0) => hasProgram

\* C2: every invocation of loop() calls tick ticksPerFrame times, and none
\* when ticksPerFrame is negative; it renders once, after the last tick and
\* from the framebuffer as that tick left it; then it schedules exactly one
\* animation frame, and nothing but loop() schedules one.
C2_LoopShape ==
  /\ [](pc = "tick" =>
         /\ frame.tpf = TicksPerFrame(tpfAttr)
         /\ frame.ticks = i
         /\ frame.ticks <= Max(frame.tpf, 0)
         /\ frame.renders = 0)
  /\ [](pc = "raf" =>
         /\ frame.ticks = Max(frame.tpf, 0)
         /\ frame.renders = 1
         /\ \A c \in Cells :
              ctx.colour[c] =
                IF emulator.gfx[c] # 0 THEN FILL_COLOR ELSE EMPTY_COLOR)
  /\ [][ /\ pc = "raf" =>
             /\ pc' = "idle"
             /\ emulator' = emulator
             /\ animationId' \notin rafPending
             /\ rafPending' = rafPending \cup {animationId'}
         /\ pc # "raf" => rafPending' \subseteq rafPending ]_vars

\* C2, witness: loop() has made its ten ticks of a loaded program and has
\* rendered the sprite they drew.
C2_Witness ==
  /\ pc = "raf"
  /\ frame.tpf = DEFAULT_TICKS
  /\ frame.ticks = DEFAULT_TICKS
  /\ \E c \in Cells : emulator.gfx[c] = 1 /\ ctx.colour[c] = FILL_COLOR

\* C2 as stated: loop() has called tick exactly ticksPerFrame times when it
\* renders.
C2_TicksPerFrameTimes ==
  pc = "raf" => (frame.ticks = frame.tpf /\ frame.renders = 1)

\* C3: in every invocation of loop() the driver decrements the delay timer
\* and the sound timer once each, a timer at 0 staying 0: when loop() has
\* rendered and none of its ticks loaded a timer, each timer is one less
\* than when loop() was called.
C3_TimersDecrementedPerFrame ==
  (pc = "raf" /\ ~frame.timersSet) =>
     /\ emulator.delay = Max(frame.delay0 - 1, 0)
     /\ emulator.sound = Max(frame.sound0 - 1, 0)

C5_RenderMatchesFramebuffer ==
  pc = "raf" =>
    \A row \in 0 .. (HEIGHT - 1), col \in 0 .. (WIDTH - 1) :
      /\ ctx.paints[GetIndex(row, col)] = 1
      /\ ctx.colour[GetIndex(row, col)] =
           IF emulator.gfx[row * WIDTH + col] # 0
           THEN FILL_COLOR
           ELSE EMPTY_COLOR

\* C5, witness: renderGfx has drawn a framebuffer with a byte that is
\* neither 0 nor 1 and a byte that is 0.
C5_Witness ==
  /\ pc = "raf"
  /\ \E c, d \in Cells :
       /\ emulator.gfx[c] = 255 /\ ctx.colour[c] = FILL_COLOR
       /\ emulator.gfx[d] = 0 /\ ctx.colour[d] = EMPTY_COLOR
       /\ ctx.paints[c] = 1 /\ ctx.paints[d] = 1

\* C6: every invocation of loop() calls gfx() exactly once, in its render,
\* and the render leaves the framebuffer and the rest of the emulator as
\* they were.
C6_ViewReadOnceNotMutated ==
  /\ [](pc = "tick" => frame.gfxCalls = 0)
  /\ [](pc = "raf" => frame.gfxCalls = 1)
  /\ [][(pc = "tick" /\ pc' = "raf") =>
          (emulator' = emulator /\ frame'.gfxCalls = frame.gfxCalls + 1)]_vars

\* C6, witness: loop() has rendered a framebuffer with pixels set, and they
\* are still set.
C6_Witness ==
  /\ pc = "raf"
  /\ frame.gfxCalls = 1
  /\ \E c \in Cells : emulator.gfx[c] = 1

\* C7: for every logical key 0x0..0xF there is a physical key whose
\* keydown makes is_key_pressed of the logical key true.
C7_EveryLogicalKeyHasAPhysicalKey ==
  \A k \in 0 .. (NUM_KEYS - 1) :
    \E code \in KeyCodes : IsKeyPressed(HandleKeydown(pressed, code), k)

\* C8: is_key_pressed(k) is true exactly when the latest event of the
\* physical key mapped to k was a keydown, for every logical key k; the
\* events of the other physical keys change no logical key.
C8_PressedIffLastEventKeydown ==
  \A k \in 0 .. (NUM_KEYS - 1) :
    IsKeyPressed(pressed, k) <=>
      \E code \in DOMAIN KEYS_MAP :
        /\ KEYS_MAP[code] = k
        /\ code \in EventCodes
        /\ lastEvent[code] = "down"

\* C8, witness: key 1 is held, key 2 was pressed and released, and the
\* latest events of the two unmapped keys are a keydown and a keyup.
C8_Witness ==
  /\ IsKeyPressed(pressed, 1)
  /\ ~IsKeyPressed(pressed, 2)
  /\ lastEvent[50] = "up"
  /\ lastEvent[88] = "down"
  /\ lastEvent[32] = "up"

\* C9: at most one oscillator is started and not stopped; one is, and
\* is_active() is true, exactly when the latest call was start(); a start()
\* while active creates no oscillator and a stop() while inactive does
\* nothing.
C9_OneToneOrSilence ==
  /\ [](/\ Cardinality(sounding) <= 1
        /\ (sounding # {}) <=> (lastCall = "start")
        /\ IsActive(o) <=> (lastCall = "start")
        /\ IsActive(o) => sounding = {o})
  /\ [][ /\ (IsActive(o) /\ lastCall' = "start") =>
              (created' = created /\ o' = o /\ sounding' = sounding)
         /\ (~IsActive(o) /\ lastCall' = "stop") =>
              (created' = created /\ o' = o /\ sounding' = sounding) ]_vars

\* C9, witness: the second oscillator sounds, after a start(), a stop() and
\* a start().
C9_Witness ==
  /\ lastCall = "start"
  /\ created = 2
  /\ sounding = {2}

C11_KeyWait ==
  [][LET op   == Fetch(emulator)
         x    == (op \div 256) % 16
         wait == op \div 4096 = 15 /\ op % 256 = 10
         none == \A k \in 0 .. 15 : ~emulator.keys[k]
         low  == CHOOSE k \in 0 .. 15 :
                   emulator.keys[k] /\ \A j \in 0 .. (k - 1) : ~emulator.keys[j]
     IN  /\ (wait /\ none) =>
              emulator' = [emulator EXCEPT !.keys = emulator'.keys]
         /\ (wait /\ ~none /\ emulator'.keys = emulator.keys) =>
              emulator' = [emulator EXCEPT !.V[x] = low, !.pc = emulator.pc + 2]
         /\ (~wait /\ emulator'.keys = emulator.keys) =>
              \/ emulator'.pc # emulator.pc
              \/ op = 4096 + emulator.pc ]_vars

\* C11, witness: keys 1 and 2 are held, LD V3, K has stored 1 in V3 and the
\* interpreter has gone on to the next instruction.
C11_Witness ==
  /\ emulator.keys[1] /\ emulator.keys[2] /\ ~emulator.keys[0]
  /\ emulator.V[3] = 1
  /\ emulator.pc = PROGRAM_START + 2
  /\ Fetch(emulator) = 58270

\* C12: when DRW Vx, Vy, n has run twice on the same sprite and
\* coordinates, the framebuffer is as before the first draw (the one the
\* canvas still shows), and VF is 1 exactly when a set pixel of the sprite
\* fell on a pixel that was clear before the first draw.
C12_DrawTwice ==
  emulator.pc = PROGRAM_START + 4 =>
    /\ \A c \in Cells : (emulator.gfx[c] = 1) <=> (ctx.colour[c] = FILL_COLOR)
    /\ \A c \in Cells : emulator.gfx[c] \in {0, 1}
    /\ emulator.V[15] =
         IF \E c \in Cells :
              /\ SpriteBit(emulator, 0, 1,
                           MemAt(emulator.mem, PROGRAM_START + 1) % 16, c) = 1
              /\ ctx.colour[c] # FILL_COLOR
         THEN 1
         ELSE 0

\* C12, witness: a five-row glyph was drawn twice over a framebuffer with a
\* pixel set; the pixel is set again and VF is 1.
C12_Witness ==
  /\ emulator.pc = PROGRAM_START + 4
  /\ MemAt(emulator.mem, PROGRAM_START + 1) % 16 = 5
  /\ emulator.I = 0
  /\ emulator.V[15] = 1
  /\ \E c \in Cells : emulator.gfx[c] = 1 /\ ctx.colour[c] = FILL_COLOR

\* C12 as stated: for every sprite the second draw restores the framebuffer
\* and sets VF = 1.
C12_SecondDrawCollides ==
  emulator.pc = PROGRAM_START + 4 =>
    /\ \A c \in Cells : (emulator.gfx[c] = 1) <=> (ctx.colour[c] = FILL_COLOR)
    /\ emulator.V[15] = 1

\* C13: while an invocation of loop() is under way, from its first tick to
\* its render and the scheduling of the next frame, no reset and no load is
\* executed: no reader starts or ends, and the emulator changes by a tick of
\* loop() or not at all.
C13_NoResetOrLoadInsideFrame ==
  [][pc # "idle" =>
       /\ readers' = readers
       /\ selected' = selected
       /\ lastLoad' = lastLoad
       /\ hasProgram' = hasProgram
       /\ programLoaded' = programLoaded
       /\ \/ emulator' = emulator
          \/ pc = "tick" /\ emulator' = EmulatorTick(emulator)]_vars

\* C13, witness: loop() is between two of its ticks while a reader, whose
\* onload will call load, has a read pending.
C13_Witness ==
  /\ pc = "tick"
  /\ frame.ticks >= 1
  /\ frame.ticks < frame.tpf
  /\ \E r \in ReaderIds : readers[r] # 0

\* C14: between event handlers the component has exactly one animation-
\* frame callback pending when started is true and none when it is false.
C14_OnePendingFrameIffStarted ==
  pc = "idle" =>
    Cardinality(rafPending) = IF Started(startedAttr) THEN 1 ELSE 0

\* C15: driven by clicks and file-selected events alone, the component
\* between handlers has the one callback of its loop pending when started is
\* true, which a click or an upload cancels, and none when started is false;
\* while started is false start()'s condition holds, so that a click starts
\* the loop, and nothing but a click makes loop() run.
C15_ClicksStartAndStop ==
  /\ [](pc = "idle" =>
         rafPending = IF Started(startedAttr) THEN {animationId} ELSE {})
  /\ [](~Started(startedAttr) => StartCond)
  /\ [][(pc = "idle" /\ ~Started(startedAttr) /\ pc' # "idle") =>
          cont' = "start"]_vars
  /\ [][(cont = "start" /\ pc = "raf") => Started(startedAttr')]_vars
  /\ [][(Started(startedAttr) /\ ~Started(startedAttr')) =>
          (pc' = "idle" /\ rafPending' = {})]_vars
  /\ [][(\E r \in ReaderIds : readers[r] = 0 /\ readers'[r] # 0) =>
          (~Started(startedAttr') /\ rafPending' = {})]_vars

\* C15, witness: a program ran and drew, a click has paused it, and no
\* callback is pending.
C15_Witness ==
  /\ pc = "idle"
  /\ startedAttr = "false"
  /\ rafPending = {}
  /\ hasProgram
  /\ \E c \in Cells : emulator.gfx[c] = 1

\* C16: when the later of the two onloads has run, the emulator holds the
\* program of the file selected second, the one reader 2 read: it is loaded
\* by that step when reader 2 is the later to end, and it is still in memory
\* after that step when reader 1 is.
C16_LastSelectedWins ==
  [][\A r \in {1, 2} :
       (readers[r] # 0 /\ readers'[r] = 0 /\ readers[3 - r] = 0) =>
          emulator'.mem =
            IF r = 2
            THEN EmulatorLoad(EmulatorNew, FileBytes(readers[2])).mem
            ELSE emulator.mem]_vars

\* C17: _programLoaded is true exactly when the latest of the emulator's
\* reset and load calls was a load that succeeded.
C17_FlagIffProgramLoaded ==
  programLoaded <=> hasProgram

\* C18: ticksPerFrame is the number the attribute writes when the
\* attribute is a string of digits that writes a positive number; it is 10
\* when the attribute is absent, writes 0, or does not start a number; it is
\* the negative number when the attribute is "-" and digits; and a frame
\* makes ticksPerFrame ticks, none when ticksPerFrame is negative.
C18_TicksPerFrameParsed ==
  LET s   == tpfAttr.value
      tpf == TicksPerFrame(tpfAttr)
  IN  /\ ~tpfAttr.present => tpf = 10
      /\ (tpfAttr.present /\ s # << >> /\ AllDigits(s)) =>
            tpf = IF Numeral(s) > 0 THEN Numeral(s) ELSE 10
      /\ (tpfAttr.present /\ Len(s) >= 2 /\ s[1] = "-" /\ AllDigits(Tail(s))) =>
            tpf = IF Numeral(Tail(s)) > 0 THEN 0 - Numeral(Tail(s)) ELSE 10
      /\ (tpfAttr.present /\ (s = << >> \/ \A k \in 1 .. Len(s) : s[k] = " ")) =>
            tpf = 10
      /\ (tpfAttr.present /\ s # << >> /\ s[1] \in {"x", "-"}
            /\ (Len(s) >= 2 => ~AllDigits(<< s[2] >>))) =>
            tpf = 10
      /\ pc = "raf" => frame.ticks = IF tpf > 0 THEN tpf ELSE 0

\* C18, witness: the attribute is "12" and loop() has made twelve ticks.
C18_Witness ==
  /\ tpfAttr = Str(<< "1", "2" >>)
  /\ pc = "raf"
  /\ frame.ticks = 12

\* C18 as stated: every frame executes at least one tick.
C18_AtLeastOneTick ==
  pc = "raf" => frame.ticks >= 1

====
